---------------------------- MODULE Spec2Model ----------------------------
(***************************************************************************)
(* A model of the AI Study Buddy worker: the StudySession durable object   *)
(* (session record, history window, understanding scorer, difficulty       *)
(* levels) and the routes of the worker that drive it.                     *)
(***************************************************************************)
EXTENDS Integers, Sequences, FiniteSets, TLC

(***************************************************************************)
(* Bounds of the model.                                                    *)
(***************************************************************************)
\* longest utterance (in whitespace-separated chunks) given to the scorer
MaxLen == 3

(***************************************************************************)
(* Text.  A message is a sequence of whitespace-separated chunks; a chunk  *)
(* is a sequence of pieces: a run of letters, an apostrophe, or another    *)
(* punctuation character.  "don't," is <<"don", "'", "t", ",">>.           *)
(***************************************************************************)
Apostrophes == {"'"}

Punctuation == {",", ".", "!", "?"}

\* String.prototype.toLowerCase on a run of letters
toLowerCase(p) ==
    CASE p = "I"        -> "i"
      [] p = "Ok"       -> "ok"
      [] p = "OK"       -> "ok"
      [] p = "Thanks"   -> "thanks"
      [] p = "Confused" -> "confused"
      [] p = "Hello"    -> "hello"
      [] OTHER          -> p

\* the words one chunk leaves after normalize: apostrophes are deleted (the
\* letters around them join), other punctuation becomes a space (the letters
\* around it separate), spaces collapse.  cur is the word being read.
RECURSIVE normalizeChunk(_, _)
normalizeChunk(chunk, cur) ==
    IF chunk = <<>>
    THEN IF cur = "" THEN <<>> ELSE <<cur>>
    ELSE LET p == toLowerCase(Head(chunk)) IN
         IF p \in Apostrophes
         THEN normalizeChunk(Tail(chunk), cur)
         ELSE IF p \in Punctuation
              THEN (IF cur = "" THEN <<>> ELSE <<cur>>)
                       \o normalizeChunk(Tail(chunk), "")
              ELSE normalizeChunk(Tail(chunk), cur \o p)

\* normalize(message): the words of the normalized text, in order
RECURSIVE normalize(_)
normalize(message) ==
    IF message = <<>> THEN <<>>
    ELSE normalizeChunk(Head(message), "") \o normalize(Tail(message))

\* m.split(" "): the empty string splits into one empty token
words(message) ==
    LET w == normalize(message) IN IF w = <<>> THEN <<"">> ELSE w

\* tokens joined by single spaces: the phrase a token sequence spells
RECURSIVE Join(_)
Join(tokens) ==
    IF tokens = <<>> THEN ""
    ELSE IF Len(tokens) = 1 THEN tokens[1]
    ELSE tokens[1] \o " " \o Join(Tail(tokens))

\* the set of 1-, 2- and 3-grams of the words
grams(w) ==
    {w[i] : i \in 1..Len(w)}
      \cup {w[i] \o " " \o w[i + 1] : i \in 1..(Len(w) - 1)}
      \cup {w[i] \o " " \o w[i + 1] \o " " \o w[i + 2] : i \in 1..(Len(w) - 2)}

(***************************************************************************)
(* The weight tables, in the order the object literals list their keys.    *)
(* An entry is <<tokens of the phrase, weight>>.                           *)
(***************************************************************************)
positiveWeights ==
    << <<<<"ok">>, 8>>, <<<<"okay">>, 8>>, <<<<"k">>, 6>>,
       <<<<"got", "it">>, 10>>, <<<<"i", "understand">>, 12>>,
       <<<<"understood">>, 12>>,
       <<<<"makes", "sense">>, 10>>, <<<<"i", "see">>, 10>>,
       <<<<"clear", "now">>, 12>>,
       <<<<"thanks">>, 3>>, <<<<"thank", "you">>, 7>>,
       <<<<"that", "helps">>, 7>>, <<<<"helpful">>, 7>>,
       <<<<"great">>, 10>>, <<<<"awesome">>, 10>>, <<<<"perfect">>, 10>>,
       <<<<"nice">>, 6>>, <<<<"cool">>, 6>>,
       <<<<"works">>, 5>>, <<<<"resolved">>, 6>>, <<<<"solved">>, 6>>,
       <<<<"yes", "that", "helps">>, 6>>,
       <<<<"yup">>, 5>>, <<<<"yep">>, 5>>, <<<<"ok", "got", "it">>, 7>> >>

negativeWeights ==
    << <<<<"confused">>, -6>>,
       <<<<"dont", "understand">>, -7>>,
       <<<<"what", "do", "you", "mean">>, -5>>,
       <<<<"can", "you", "explain">>, -5>>,
       <<<<"im", "lost">>, -7>>, <<<<"unclear">>, -5>>,
       <<<<"not", "sure">>, -4>>, <<<<"unsure">>, -4>>,
       <<<<"explain", "again">>, -5>>, <<<<"simplify">>, -4>>,
       <<<<"too", "hard">>, -6>>, <<<<"too", "difficult">>, -6>>,
       <<<<"slow", "down">>, -4>>, <<<<"still", "confused">>, -6>>,
       <<<<"no">>, -3>>, <<<<"nah">>, -3>> >>

Abs(n) == IF n < 0 THEN -n ELSE n

Max(a, b) == IF a > b THEN a ELSE b

Min(a, b) == IF a < b THEN a ELSE b

\* the comparator of the sort: a goes before b
Before(a, b) ==
    \/ Len(a[1]) > Len(b[1])
    \/ Len(a[1]) = Len(b[1]) /\ Abs(a[2]) > Abs(b[2])

RECURSIVE Insert(_, _)
Insert(x, s) ==
    IF s = <<>> THEN <<x>>
    ELSE IF Before(x, Head(s)) THEN <<x>> \o s
    ELSE <<Head(s)>> \o Insert(x, Tail(s))

\* Array.prototype.sort with that comparator (a stable sort)
RECURSIVE sortEntries(_)
sortEntries(es) ==
    IF es = <<>> THEN <<>>
    ELSE Insert(es[Len(es)], sortEntries(SubSeq(es, 1, Len(es) - 1)))

\* the phrases a counted phrase marks as used: its sub-grams and itself
subGrams(tokens) ==
    (IF Len(tokens) = 3
     THEN {tokens[1] \o " " \o tokens[2], tokens[2] \o " " \o tokens[3],
           tokens[1], tokens[2], tokens[3]}
     ELSE {})
      \cup (IF Len(tokens) = 2 THEN {tokens[1], tokens[2]} ELSE {})
      \cup {Join(tokens)}

\* the matching loop without the check of the used phrases
RECURSIVE scanEntriesAll(_, _, _, _)
scanEntriesAll(entries, g, total, used) ==
    IF entries = <<>> THEN total
    ELSE IF Join(Head(entries)[1]) \in g
         THEN scanEntriesAll(Tail(entries), g, total + Head(entries)[2], used)
         ELSE scanEntriesAll(Tail(entries), g, total, used)

\* one pass of the matching loop over the sorted entries
RECURSIVE scanEntries(_, _, _, _)
scanEntries(entries, g, total, used) ==
    IF entries = <<>> THEN total
    ELSE LET tokens == Head(entries)[1]
             w      == Head(entries)[2]
             phrase == Join(tokens)
         IN  IF phrase \in g /\ phrase \notin used
             THEN scanEntries(Tail(entries), g, total + w,
                              used \cup subGrams(tokens))
             ELSE scanEntries(Tail(entries), g, total, used)

sortedPositive == sortEntries(positiveWeights)

sortedNegative == sortEntries(negativeWeights)

sumMatches(sorted, g) == scanEntries(sorted, g, 0, {})

\* the sum of both tables, before the cap
rawDelta(message) ==
    LET g == grams(words(message))
    IN  sumMatches(sortedPositive, g) + sumMatches(sortedNegative, g)

\* a cap with the same limit on both sides
capDeltaSymmetric(d) == Max(-15, Min(15, d))

\* the sum of the tables taken as it is
capDeltaNone(d) == d

\* cap per-turn movement
capDelta(d) == Max(-12, Min(15, d))

scoreDelta(message) == capDelta(rawDelta(message))

(***************************************************************************)
(* The session record of StudySession and the state of the worker.         *)
(***************************************************************************)
\* history.length above which /add-message cuts the history
HistoryLimit == 50

\* most add-message operations one session completes (SpecSession)
MaxAdds == 8

\* most add-message operations the session completes (SpecLong)
MaxLongAdds == 28

\* last value of the clock (Spec)
MaxClock == 1

\* most chat requests the worker accepts (Spec)
MaxChats == 2

\* chat requests the worker handles at the same time (Spec)
MaxInflight == 2

SessionIds == {"s1", "s2"}

Levels == {"beginner", "intermediate", "advanced"}

\* sessionData of an object that has no record in memory, and the result
\* of storage.get when nothing is stored
null == [null |-> TRUE]

\* no response yet
NoResponse == [op |-> "none"]

VARIABLES
    sessionData,   \* sessionData[s]: the record in memory of the object of s
    storage,       \* storage[s]: what state.storage holds under 'session'
    now,           \* the last value Date.now() returned
    completed,     \* completed[s]: add-message operations completed so far
    appended,      \* appended[s]: every turn ever pushed, in order
    chat,          \* chat[r]: the /api/chat request handled in slot r
    issued,        \* the session ids /api/session/start has generated
    response,      \* the last Response returned (of the object in SpecSession
                   \* and SpecLong, of the worker in Spec)
    scMessage,     \* the utterance given to the scorer (SpecScorer)
    scDelta,       \* the delta the scorer returned for it
    scPc,          \* "input" before, "scored" after the scorer ran
    client,        \* the state of the App component in the browser
    sentChats,     \* every body the client posted to /api/chat, in order
    lastUpdate     \* lastUpdate[s]: the tier before and after, and the score
                   \* after, the last add-message of s (SpecHysteresis)

vars == <<sessionData, storage, now, completed, appended,
          chat, issued, response, scMessage, scDelta, scPc,
          client, sentChats, lastUpdate>>

sessionVars == <<sessionData, storage, now, completed, appended>>

routerVars == <<chat, issued>>

scorerVars == <<scMessage, scDelta, scPc>>

clientVars == <<client, sentChats>>

\* a new record that starts at the middle of the score range
NewSessionMidpoint(t) ==
    [sessionId |-> "",
     history   |-> <<>>,
     metrics   |-> [totalMessages      |-> 0,
                    topicsDiscussed    |-> <<>>,
                    difficultyLevel    |-> "intermediate",
                    understandingScore |-> 50,
                    lastInteraction    |-> t],
     createdAt |-> t]

\* the record ensureInitialized creates when nothing is stored; both
\* Date.now() calls of the literal read t
NewSession(t) ==
    [sessionId |-> "",
     history   |-> <<>>,
     metrics   |-> [totalMessages      |-> 0,
                    topicsDiscussed    |-> <<>>,
                    difficultyLevel    |-> "beginner",
                    understandingScore |-> 0,
                    lastInteraction    |-> t],
     createdAt |-> t]

\* ensureInitialized that never reads the store
ensureInitializedFresh(s, t) ==
    IF sessionData[s] # null THEN sessionData[s] ELSE NewSession(t)

\* sessionData after ensureInitialized
ensureInitialized(s, t) ==
    IF sessionData[s] # null THEN sessionData[s]
    ELSE IF storage[s] # null THEN storage[s]
    ELSE NewSession(t)

\* history.slice(-n)
SliceLast(h, n) == IF Len(h) > n THEN SubSeq(h, Len(h) - n + 1, Len(h)) ELSE h

\* the transitions as independent ifs, promotions first
levelTransitionCascade(lvl, next) ==
    LET a == IF next > 30 /\ lvl = "beginner" THEN "intermediate" ELSE lvl
        b == IF next > 60 /\ a = "intermediate" THEN "advanced" ELSE a
        c == IF next < 55 /\ b = "advanced" THEN "intermediate" ELSE b
    IN  IF next < 25 /\ c = "intermediate" THEN "beginner" ELSE c

\* the transitions with the thresholds of the earlier revision
levelTransitionOld(lvl, next) ==
    IF next > 80 /\ lvl = "beginner" THEN "intermediate"
    ELSE IF next > 90 /\ lvl = "intermediate" THEN "advanced"
    ELSE IF next < 40 /\ lvl = "advanced" THEN "intermediate"
    ELSE IF next < 30 /\ lvl = "intermediate" THEN "beginner"
    ELSE lvl

\* the transitions with the limits themselves promoting and demoting
levelTransitionInclusive(lvl, next) ==
    IF next >= 60 /\ lvl = "intermediate" THEN "advanced"
    ELSE IF next >= 30 /\ lvl = "beginner" THEN "intermediate"
    ELSE IF next <= 55 /\ lvl = "advanced" THEN "intermediate"
    ELSE IF next <= 25 /\ lvl = "intermediate" THEN "beginner"
    ELSE lvl

\* the transitions with one limit for both directions at each boundary
levelTransitionNoGap(lvl, next) ==
    IF next > 60 /\ lvl = "intermediate" THEN "advanced"
    ELSE IF next > 30 /\ lvl = "beginner" THEN "intermediate"
    ELSE IF next <= 60 /\ lvl = "advanced" THEN "intermediate"
    ELSE IF next <= 30 /\ lvl = "intermediate" THEN "beginner"
    ELSE lvl

\* the transitions without the demotions
levelTransitionNoDemotion(lvl, next) ==
    IF next > 60 /\ lvl = "intermediate" THEN "advanced"
    ELSE IF next > 30 /\ lvl = "beginner" THEN "intermediate"
    ELSE lvl

\* the level transitions with hysteresis, on the new score
levelTransition(lvl, next) ==
    IF next > 60 /\ lvl = "intermediate" THEN "advanced"
    ELSE IF next > 30 /\ lvl = "beginner" THEN "intermediate"
    ELSE IF next < 55 /\ lvl = "advanced" THEN "intermediate"
    ELSE IF next < 25 /\ lvl = "intermediate" THEN "beginner"
    ELSE lvl

\* the score without its upper limit
nextScoreUncapped(prev, delta) == Max(0, prev + delta)

\* the score after the capped delta is added
nextScore(prev, delta) == Max(0, Min(100, prev + delta))

\* updateUnderstandingScore adding the sum of the tables without the cap
updateUnderstandingScoreRaw(metrics, message) ==
    LET next == nextScore(metrics.understandingScore, rawDelta(message))
    IN  [metrics EXCEPT
            !.understandingScore = next,
            !.difficultyLevel = levelTransition(metrics.difficultyLevel, next)]

\* metrics after updateUnderstandingScore(message)
updateUnderstandingScore(metrics, message) ==
    LET next == nextScore(metrics.understandingScore, scoreDelta(message))
    IN  [metrics EXCEPT
            !.understandingScore = next,
            !.difficultyLevel = levelTransition(metrics.difficultyLevel, next)]

\* the two turns /add-message pushes
turnPair(userMessage, aiResponse, timestamp) ==
    << [role |-> "user", content |-> userMessage, timestamp |-> timestamp],
       [role |-> "assistant", content |-> <<<<aiResponse>>>>,
        timestamp |-> timestamp + 1] >>

\* the slice computed and dropped: the history is never cut
truncateNever(h) == h

\* the cut that keeps the oldest turns, history.slice(0, 50)
truncateOldest(h) == IF Len(h) > HistoryLimit THEN SubSeq(h, 1, HistoryLimit) ELSE h

\* the cut, one turn short
truncateOdd(h) == IF Len(h) > HistoryLimit THEN SliceLast(h, HistoryLimit - 1) ELSE h

\* the cut of the history to its last 50 turns
truncate(h) == IF Len(h) > HistoryLimit THEN SliceLast(h, HistoryLimit) ELSE h

\* /add-message with totalMessages taken from history.length
addMessageCountHistory(data, userMessage, aiResponse, timestamp) ==
    LET pushed  == truncate(data.history
                              \o turnPair(userMessage, aiResponse, timestamp))
        counted == [data.metrics EXCEPT
                       !.totalMessages = Len(pushed),
                       !.lastInteraction = timestamp]
    IN  [data EXCEPT
            !.history = pushed,
            !.metrics = updateUnderstandingScore(counted, userMessage)]

\* the record after the body of /add-message
addMessage(data, userMessage, aiResponse, timestamp) ==
    LET pushed  == data.history \o turnPair(userMessage, aiResponse, timestamp)
        counted == [data.metrics EXCEPT
                       !.totalMessages = @ + 2,
                       !.lastInteraction = timestamp]
    IN  [data EXCEPT
            !.history = truncate(pushed),
            !.metrics = updateUnderstandingScore(counted, userMessage)]

(***************************************************************************)
(* The operations of StudySession.fetch on the object of session s.  t is  *)
(* the value Date.now() returns during the operation.                      *)
(***************************************************************************)
\* /init that starts the record over
InitReset(s, sessionId, t) ==
    LET data == [NewSession(t) EXCEPT !.sessionId = sessionId] IN
    /\ t >= now
    /\ now' = t
    /\ sessionData' = [sessionData EXCEPT ![s] = data]
    /\ storage' = [storage EXCEPT ![s] = data]
    /\ UNCHANGED <<completed, appended>>

\* POST /init; without a record it does nothing
Init_(s, sessionId, t) ==
    LET loaded == ensureInitialized(s, t) IN
    /\ t >= now
    /\ now' = t
    /\ IF loaded = null
       THEN UNCHANGED <<sessionData, storage>>
       ELSE LET data == [loaded EXCEPT !.sessionId = sessionId] IN
            /\ sessionData' = [sessionData EXCEPT ![s] = data]
            /\ storage' = [storage EXCEPT ![s] = data]
    /\ UNCHANGED <<completed, appended>>

\* POST /add-message; without a record it answers 500 and does nothing
AddMessage(s, userMessage, aiResponse, t) ==
    LET loaded == ensureInitialized(s, t)
        data   == addMessage(loaded, userMessage, aiResponse, t)
    IN  /\ t >= now
        /\ now' = t
        /\ IF loaded = null
           THEN UNCHANGED <<sessionData, storage, completed, appended>>
           ELSE /\ sessionData' = [sessionData EXCEPT ![s] = data]
                /\ storage' = [storage EXCEPT ![s] = data]
                /\ completed' = [completed EXCEPT ![s] = @ + 1]
                /\ appended' = [appended EXCEPT
                       ![s] = @ \o turnPair(userMessage, aiResponse, t)]

\* GET /history
GetHistory(s, t) ==
    /\ t >= now
    /\ now' = t
    /\ sessionData' = [sessionData EXCEPT ![s] = ensureInitialized(s, t)]
    /\ UNCHANGED <<storage, completed, appended>>

\* /progress that saves the record it loaded
GetProgressSaving(s, t) ==
    /\ t >= now
    /\ now' = t
    /\ sessionData' = [sessionData EXCEPT ![s] = ensureInitialized(s, t)]
    /\ storage' = [storage EXCEPT ![s] = ensureInitialized(s, t)]
    /\ UNCHANGED <<completed, appended>>

\* GET /progress
GetProgress(s, t) ==
    /\ t >= now
    /\ now' = t
    /\ sessionData' = [sessionData EXCEPT ![s] = ensureInitialized(s, t)]
    /\ UNCHANGED <<storage, completed, appended>>

\* POST /add-message when storage.put throws in save: the record in memory
\* has the turns and the new metrics, the store keeps what it had
AddMessageStoreFails(s, userMessage, aiResponse, t) ==
    LET data == addMessage(ensureInitialized(s, t), userMessage, aiResponse, t)
    IN  /\ t >= now
        /\ now' = t
        /\ sessionData' = [sessionData EXCEPT ![s] = data]
        /\ completed' = [completed EXCEPT ![s] = @ + 1]
        /\ appended' = [appended EXCEPT
                           ![s] = @ \o turnPair(userMessage, aiResponse, t)]
        /\ UNCHANGED storage

\* POST /set-difficulty when storage.put throws in save
SetDifficultyStoreFails(s, level, t) ==
    /\ t >= now
    /\ now' = t
    /\ sessionData' = [sessionData EXCEPT
                          ![s] = [ensureInitialized(s, t) EXCEPT
                                     !.metrics.difficultyLevel = level]]
    /\ UNCHANGED <<storage, completed, appended>>

\* the Response of the catch of fetch: 500 with the message of the error
caughtResponse(op, message) == [op |-> op, status |-> 500, error |-> message]

\* /set-difficulty that changes the record in memory and does not save it
SetDifficultyUnsaved(s, level, t) ==
    LET loaded == ensureInitialized(s, t) IN
    /\ t >= now
    /\ now' = t
    /\ sessionData' = [sessionData EXCEPT
                          ![s] = [loaded EXCEPT !.metrics.difficultyLevel = level]]
    /\ UNCHANGED <<storage, completed, appended>>

\* POST /set-difficulty; without a record it answers 500 and does nothing
SetDifficulty(s, level, t) ==
    LET loaded == ensureInitialized(s, t) IN
    /\ t >= now
    /\ now' = t
    /\ IF loaded = null
       THEN UNCHANGED <<sessionData, storage>>
       ELSE LET data == [loaded EXCEPT !.metrics.difficultyLevel = level] IN
            /\ sessionData' = [sessionData EXCEPT ![s] = data]
            /\ storage' = [storage EXCEPT ![s] = data]
    /\ UNCHANGED <<completed, appended>>

\* the Response {success: true}
successResponse(op) == [op |-> op, status |-> 200]

\* the Response of /add-message and of /set-difficulty: {success: true}, or
\* 500 when sessionData is null
mutationResponse(op, s, t) ==
    IF ensureInitialized(s, t) = null
    THEN [op |-> op, status |-> 500, error |-> "Session not initialized"]
    ELSE successResponse(op)

\* /history answering 404 while nothing is stored, as /progress is written to
historyResponseNotFound(s, t) ==
    LET data == ensureInitialized(s, t) IN
    IF storage[s] = null
    THEN [op |-> "history", status |-> 404, error |-> "Session not found"]
    ELSE [op |-> "history", status |-> 200,
          history |-> data.history,
          difficultyLevel |-> data.metrics.difficultyLevel]

\* the Response of GET /history; without a record, the defaults
historyResponse(s, t) ==
    LET data == ensureInitialized(s, t) IN
    IF data = null
    THEN [op |-> "history", status |-> 200,
          history |-> <<>>, difficultyLevel |-> "beginner"]
    ELSE [op |-> "history", status |-> 200,
          history |-> data.history,
          difficultyLevel |-> data.metrics.difficultyLevel]

\* GET /progress reporting the counter as the number of turns held
progressResponseCountTotal(s, t) ==
    LET data == ensureInitialized(s, t) IN
    IF data = null
    THEN [op |-> "progress", status |-> 404, error |-> "Session not found"]
    ELSE [op |-> "progress", status |-> 200,
          metrics |-> data.metrics,
          messageCount |-> data.metrics.totalMessages,
          sessionAge |-> t - data.createdAt]

\* the Response of GET /progress; without a record, 404
progressResponse(s, t) ==
    LET data == ensureInitialized(s, t) IN
    IF data = null
    THEN [op |-> "progress", status |-> 404, error |-> "Session not found"]
    ELSE [op |-> "progress", status |-> 200,
          metrics |-> data.metrics,
          messageCount |-> Len(data.history),
          sessionAge |-> t - data.createdAt]

\* the state of App when it is mounted: the useState initial values, the
\* session effect started and createSession() not yet settled
MountedApp ==
    [sessionId |-> "", messages |-> <<>>, input |-> "", loading |-> FALSE,
     progress |-> null, error |-> "", session |-> "pending",
     sending |-> <<>>, lastSend |-> "none"]

\* no request is being handled
IdleChat == [pc |-> "idle"]

\* the state after the objects are constructed: nothing in memory, nothing
\* stored, no request being handled, the scorer not running
Init ==
    /\ sessionData = [s \in SessionIds |-> null]
    /\ storage = [s \in SessionIds |-> null]
    /\ now = 0
    /\ completed = [s \in SessionIds |-> 0]
    /\ appended = [s \in SessionIds |-> <<>>]
    /\ chat = [r \in 1..MaxInflight |-> IdleChat]
    /\ issued = {}
    /\ response = NoResponse
    /\ scMessage = <<>>
    /\ scDelta = 0
    /\ scPc = "idle"
    /\ client = MountedApp
    /\ sentChats = <<>>
    /\ lastUpdate = [s \in SessionIds |-> null]

(***************************************************************************)
(* SpecScorer: the scorer on every utterance of at most MaxLen chunks.     *)
(***************************************************************************)
ScorerChunks ==
    { <<"Ok">>, <<"got">>, <<"it", "!">>, <<"understood">>, <<"great">>,
      <<"I">>, <<"don", "'", "t">>, <<"understand", ",">>,
      <<"still">>, <<"confused">>, <<"nah">>, <<"hello">> }

RECURSIVE SeqsUpTo(_, _)
SeqsUpTo(S, n) ==
    IF n = 0 THEN {<<>>}
    ELSE LET shorter == SeqsUpTo(S, n - 1)
         IN  shorter \cup {Append(q, x) : q \in shorter, x \in S}

\* the same state, with an utterance handed to the scorer
ScorerInit ==
    /\ sessionData = [s \in SessionIds |-> null]
    /\ storage = [s \in SessionIds |-> null]
    /\ now = 0
    /\ completed = [s \in SessionIds |-> 0]
    /\ appended = [s \in SessionIds |-> <<>>]
    /\ chat = [r \in 1..MaxInflight |-> IdleChat]
    /\ issued = {}
    /\ response = NoResponse
    /\ scMessage \in SeqsUpTo(ScorerChunks, MaxLen)
    /\ scDelta = 0
    /\ scPc = "input"
    /\ client = MountedApp
    /\ sentChats = <<>>
    /\ lastUpdate = [s \in SessionIds |-> null]

\* the scorer runs on the utterance
Score ==
    /\ scPc = "input"
    /\ scDelta' = scoreDelta(scMessage)
    /\ scPc' = "scored"
    /\ UNCHANGED <<scMessage, sessionVars, routerVars, response, clientVars, lastUpdate>>

SpecScorer == ScorerInit /\ [][Score]_vars

(***************************************************************************)
(* SpecSession: one object, any sequence of its five operations.           *)
(***************************************************************************)
Positive ==
    << <<"I">>, <<"understand", ",">>, <<"that">>, <<"makes">>,
       <<"sense", ",">>, <<"thanks">> >>

Negative == << <<"confused", ",">>, <<"I">>, <<"don", "'", "t">>, <<"understand">> >>

Yup == << <<"yup">> >>

Utterances == {Positive, Negative}

\* the values Date.now() may return next
Clock == {t \in {now, now + 1} : t <= MaxClock}

(***************************************************************************)
(* The requests one object receives, each with its Response.  In           *)
(* SpecSession and SpecLong the clock advances by one with every           *)
(* add-message.                                                            *)
(***************************************************************************)
FetchInit(s) ==
    /\ Init_(s, s, now)
    /\ response' = successResponse("init")
    /\ UNCHANGED <<routerVars, scorerVars, clientVars, lastUpdate>>

FetchAddMessage(s, userMessage) ==
    /\ AddMessage(s, userMessage, "answer", now + 1)
    /\ response' = mutationResponse("add-message", s, now + 1)
    /\ UNCHANGED <<routerVars, scorerVars, clientVars, lastUpdate>>

FetchHistory(s) ==
    /\ GetHistory(s, now)
    /\ response' = historyResponse(s, now)
    /\ UNCHANGED <<routerVars, scorerVars, clientVars, lastUpdate>>

FetchProgress(s) ==
    /\ GetProgress(s, now)
    /\ response' = progressResponse(s, now)
    /\ UNCHANGED <<routerVars, scorerVars, clientVars, lastUpdate>>

FetchSetDifficulty(s, level) ==
    /\ SetDifficulty(s, level, now)
    /\ response' = mutationResponse("set-difficulty", s, now)
    /\ UNCHANGED <<routerVars, scorerVars, clientVars, lastUpdate>>

\* the inputs S while the count n is below its bound, none after
Upto(n, bound, S) == IF n < bound THEN S ELSE {}

SessionNext ==
    \/ FetchInit("s1")
    \/ \E u \in Upto(completed["s1"], MaxAdds, Utterances) :
           FetchAddMessage("s1", u)
    \/ FetchHistory("s1")
    \/ FetchProgress("s1")
    \/ \E level \in Levels : FetchSetDifficulty("s1", level)

SpecSession == Init /\ [][SessionNext]_vars

(***************************************************************************)
(* SpecLong: one object, long enough for the history to be cut.            *)
(***************************************************************************)
LongUtterances == {Yup}

LongNext ==
    \/ FetchInit("s1")
    \/ \E u \in Upto(completed["s1"], MaxLongAdds, LongUtterances) :
           FetchAddMessage("s1", u)
    \/ FetchHistory("s1")
    \/ FetchProgress("s1")
    \/ \E level \in Levels : FetchSetDifficulty("s1", level)

SpecLong == Init /\ [][LongNext]_vars

(***************************************************************************)
(* SpecTiers: one object that is never sent set-difficulty and hears       *)
(* messages that raise the score, lower it and leave it alone.             *)
(***************************************************************************)
\* most add-message operations the session completes (SpecTiers)
MaxTierAdds == 8

Hello == << <<"hello">> >>

TierUtterances == {Positive, Negative, Hello}

TiersNext ==
    \/ \E u \in Upto(completed["s1"], MaxTierAdds, TierUtterances) :
           FetchAddMessage("s1", u)
    \/ FetchProgress("s1")

SpecTiers == Init /\ [][TiersNext]_vars

(***************************************************************************)
(* SpecHysteresis: one object that hears messages moving the score by 15,  *)
(* -7 and -4, with set-difficulty in between; lastUpdate keeps what the    *)
(* last add-message did.                                                   *)
(***************************************************************************)
\* most add-message operations the session completes (SpecHysteresis)
MaxHysteresisAdds == 6

Lost == << <<"I", "'", "m">>, <<"lost">> >>

Unsure == << <<"unsure">> >>

HysteresisUtterances == {Positive, Lost, Unsure}

\* the update from tier from to tier to takes back the update prev
Undoes(prev, from, to) ==
    IF prev = null THEN FALSE
    ELSE prev.from # prev.to /\ from = prev.to /\ to = prev.from

\* /add-message, with the tiers and the score of the update kept
TrackedAddMessage(s, userMessage) ==
    /\ AddMessage(s, userMessage, "answer", now + 1)
    /\ response' = mutationResponse("add-message", s, now + 1)
    /\ lastUpdate' =
           [lastUpdate EXCEPT
               ![s] = LET from == ensureInitialized(s, now + 1)
                                     .metrics.difficultyLevel
                          to   == sessionData'[s].metrics.difficultyLevel
                      IN  [from  |-> from,
                           to    |-> to,
                           score |-> sessionData'[s]
                                        .metrics.understandingScore,
                           undid |-> Undoes(@, from, to)]]
    /\ UNCHANGED <<routerVars, scorerVars, clientVars>>

HysteresisNext ==
    \/ \E u \in Upto(completed["s1"], MaxHysteresisAdds,
                      HysteresisUtterances) :
           TrackedAddMessage("s1", u)
    \/ \E level \in Levels : FetchSetDifficulty("s1", level)

SpecHysteresis == Init /\ [][HysteresisNext]_vars

(***************************************************************************)
(* SpecScenario: one object that hears only "I understand, that makes      *)
(* sense, thanks" and, once it is advanced, only "confused, I don't         *)
(* understand"; no set-difficulty.                                         *)
(***************************************************************************)
\* most add-message operations the session completes (SpecScenario)
MaxScenarioAdds == 12

\* the utterances the user has sent so far
Sent(s) == {appended[s][i].content : i \in {j \in 1..Len(appended[s]) : j % 2 = 1}}

\* the record an operation on s starts from
Loaded(s) == ensureInitialized(s, now)

\* the user goes on with positive messages while no negative one was sent
ScenarioUp == IF Negative \notin Sent("s1") THEN {Positive} ELSE {}

\* the user turns to negative messages once the session is advanced
ScenarioDown ==
    IF Loaded("s1").metrics.difficultyLevel = "advanced" \/ Negative \in Sent("s1")
    THEN {Negative} ELSE {}

ScenarioNext ==
    \/ FetchInit("s1")
    \/ \E u \in Upto(completed["s1"], MaxScenarioAdds, ScenarioUp) :
           FetchAddMessage("s1", u)
    \/ \E u \in Upto(completed["s1"], MaxScenarioAdds, ScenarioDown) :
           FetchAddMessage("s1", u)
    \/ FetchHistory("s1")
    \/ FetchProgress("s1")

SpecScenario == Init /\ [][ScenarioNext]_vars

(***************************************************************************)
(* The routes of the worker (index.ts) and processMessage (utils/ai.ts).   *)
(* A string field that is missing or empty is "", a missing or empty       *)
(* message is <<>>: both are falsy in the checks of the routes.            *)
(***************************************************************************)
\* the fallback text of processMessage
Apology ==
    "I apologize, but I'm having trouble processing your question right now. "
      \o "Could you please try rephrasing it, or ask something else? "
      \o "I'm here to help!"

\* how a call ends: it returns a value or throws
Returned(value) == [thrown |-> FALSE, value |-> value]

Thrown(message) == [thrown |-> TRUE, message |-> message]

\* the result of ai.run with its response text; a result without the
\* property reads as "", falsy like undefined
AiResult(text) == Returned([response |-> text])

\* what ai.run may do: give a response text, give none, throw
AiOutcomes == {AiResult("answer "), AiResult(""), Thrown("timeout")}

\* String.prototype.trim
trim(text) ==
    CASE text = "answer "  -> "answer"
      [] text = " answer " -> "answer"
      [] text = " "        -> ""
      [] OTHER             -> text

\* the session ids the requests of the worker address
RouterIds == {"s1"}

BodySessionIds == RouterIds \cup {""}

BodyMessages == {Positive, <<>>}

BodyLevels == {"advanced", "expert", ""}

\* the chat requests accepted so far
Accepted(s) == completed[s] + Cardinality({r \in 1..MaxInflight :
                                  chat[r].pc # "idle" /\ chat[r].sessionId = s})

RECURSIVE SumOver(_, _)
SumOver(f, S) ==
    IF S = {} THEN 0
    ELSE LET x == CHOOSE y \in S : TRUE IN f[x] + SumOver(f, S \ {x})

AcceptedChats == SumOver([s \in SessionIds |-> Accepted(s)], SessionIds)

\* every name addressing one and the same object
idFromNameShared(name) == "s1"

\* STUDY_SESSION.idFromName(sessionId) and get(id): the object of a session
\* id, one per name
idFromName(name) == name

\* the check of the chat body that looks at sessionId only
chatBodyMissingNoMessage(sessionId, message) == sessionId = ""

\* body.sessionId or body.message is missing
chatBodyMissing(sessionId, message) == sessionId = "" \/ message = <<>>

\* body.sessionId or body.level is missing
difficultyBodyMissing(sessionId, level) == sessionId = "" \/ level = ""

\* errorResponse(message, status) of a route; request is the body received
errorResponse(route, request, message, status) ==
    [route |-> route, request |-> request, status |-> status, error |-> message]

\* POST /api/session/start: generateSessionId gives an id not given before
ApiSessionStart(sessionId, t) ==
    /\ sessionId \in SessionIds \ issued
    /\ Init_(idFromName(sessionId), sessionId, t)
    /\ issued' = issued \cup {sessionId}
    /\ response' = [route |-> "start", status |-> 200, sessionId |-> sessionId]
    /\ UNCHANGED <<chat, scorerVars, clientVars, lastUpdate>>

\* POST /api/chat with a field missing
ApiChatInvalid(sessionId, message) ==
    /\ chatBodyMissing(sessionId, message)
    /\ response' = errorResponse("chat",
                                 [sessionId |-> sessionId, message |-> message],
                                 "Missing sessionId or message", 400)
    /\ UNCHANGED <<sessionVars, chat, issued, scorerVars, clientVars, lastUpdate>>

\* POST /api/chat, up to the history read
ApiChatHistory(r, sessionId, message, t) ==
    LET historyData == historyResponse(idFromName(sessionId), t) IN
    /\ chat[r].pc = "idle"
    /\ ~chatBodyMissing(sessionId, message)
    /\ GetHistory(idFromName(sessionId), t)
    /\ chat' = [chat EXCEPT ![r] =
                   [pc |-> "ai", sessionId |-> sessionId, message |-> message,
                    history |-> historyData.history,
                    difficultyLevel |-> IF historyData.difficultyLevel = ""
                                        THEN "beginner"
                                        ELSE historyData.difficultyLevel]]
    /\ UNCHANGED <<issued, response, scorerVars, clientVars, lastUpdate>>

\* formatHistory: the last 10 turns, role and content
formatHistory(history) ==
    LET recentHistory == SliceLast(history, 10)
    IN  [i \in 1..Len(recentHistory) |->
            [role |-> recentHistory[i].role, content |-> recentHistory[i].content]]

\* SYSTEM_PROMPTS: each prompt by its first sentence
SYSTEM_PROMPTS ==
    [beginner     |-> "You are a patient and encouraging AI tutor helping a "
                        \o "beginner learn programming and computer science "
                        \o "concepts.",
     intermediate |-> "You are an AI tutor helping an intermediate-level "
                        \o "student deepen their understanding of programming "
                        \o "and computer science.",
     advanced     |-> "You are an AI tutor working with an advanced student on "
                        \o "sophisticated programming and computer science "
                        \o "topics."]

\* { role: 'system', content: SYSTEM_PROMPTS[difficultyLevel] }: for a key
\* the object does not have the content is undefined and the message has
\* no content
systemMessage(difficultyLevel) ==
    IF difficultyLevel \in DOMAIN SYSTEM_PROMPTS
    THEN [role |-> "system", content |-> <<<<SYSTEM_PROMPTS[difficultyLevel]>>>>]
    ELSE [role |-> "system"]

\* the messages processMessage sends to the model
promptMessages(userMessage, history, difficultyLevel) ==
    << systemMessage(difficultyLevel) >>
       \o formatHistory(history)
       \o << [role |-> "user", content |-> userMessage] >>

\* processMessage without its try and catch
processMessageNoCatch(outcome) ==
    IF outcome.thrown THEN outcome
    ELSE IF outcome.value.response # ""
         THEN Returned(trim(outcome.value.response))
         ELSE Thrown("Invalid AI response format")

\* how processMessage ends for an outcome of ai.run: the catch turns every
\* throw into the fallback text
processMessage(outcome) ==
    IF ~outcome.thrown /\ outcome.value.response # ""
    THEN Returned(trim(outcome.value.response))
    ELSE Returned(Apology)

\* POST /api/chat, the call of processMessage; outcome is what ai.run does.
\* A throw of processMessage would reach the catch of the worker.
ApiChatProcess(r, outcome) ==
    LET call == processMessage(outcome) IN
    /\ chat[r].pc = "ai"
    /\ IF call.thrown
       THEN /\ chat' = [chat EXCEPT ![r] = IdleChat]
            /\ response' = errorResponse("chat",
                               [sessionId |-> chat[r].sessionId,
                                message |-> chat[r].message],
                               call.message, 500)
       ELSE /\ chat' = [chat EXCEPT ![r] =
                   [pc |-> "add", sessionId |-> chat[r].sessionId,
                    message |-> chat[r].message,
                    history |-> chat[r].history,
                    difficultyLevel |-> chat[r].difficultyLevel,
                    messages |-> promptMessages(chat[r].message, chat[r].history,
                                                chat[r].difficultyLevel),
                    outcome |-> outcome,
                    aiResponse |-> call.value]]
            /\ UNCHANGED response
    /\ UNCHANGED <<sessionVars, issued, scorerVars, clientVars, lastUpdate>>

\* the chat route writing back the history it read, with the new turns
ApiChatAddSnapshot(r, t) ==
    LET s    == idFromName(chat[r].sessionId)
        pair == turnPair(chat[r].message, chat[r].aiResponse, t)
        data == addMessage(ensureInitialized(s, t), chat[r].message,
                           chat[r].aiResponse, t)
        back == [data EXCEPT !.history = truncate(chat[r].history \o pair)]
    IN  /\ chat[r].pc = "add"
        /\ t >= now
        /\ now' = t
        /\ sessionData' = [sessionData EXCEPT ![s] = back]
        /\ storage' = [storage EXCEPT ![s] = back]
        /\ completed' = [completed EXCEPT ![s] = @ + 1]
        /\ appended' = [appended EXCEPT ![s] = @ \o pair]
        /\ response' = [route |-> "chat",
                        request |-> [sessionId |-> chat[r].sessionId, message |-> chat[r].message],
                        status |-> 200,
                        response |-> chat[r].aiResponse,
                        sessionId |-> chat[r].sessionId,
                        object |-> successResponse("add-message")]
        /\ chat' = [chat EXCEPT ![r] = IdleChat]
        /\ UNCHANGED <<issued, scorerVars, clientVars, lastUpdate>>

\* POST /api/chat, the add-message (its Response is not looked at) and the
\* response
ApiChatAdd(r, t) ==
    /\ chat[r].pc = "add"
    /\ AddMessage(idFromName(chat[r].sessionId), chat[r].message,
                  chat[r].aiResponse, t)
    /\ response' = [route |-> "chat",
                    request |-> [sessionId |-> chat[r].sessionId,
                                 message |-> chat[r].message],
                    status |-> 200,
                    response |-> chat[r].aiResponse,
                    sessionId |-> chat[r].sessionId,
                    object |-> mutationResponse("add-message",
                                  idFromName(chat[r].sessionId), t)]
    /\ chat' = [chat EXCEPT ![r] = IdleChat]
    /\ UNCHANGED <<issued, scorerVars, clientVars, lastUpdate>>

\* POST /api/chat, the add-message and the response, when the object
\* answers 500 because storage.put threw
ApiChatAddStoreFails(r, t) ==
    /\ chat[r].pc = "add"
    /\ AddMessageStoreFails(idFromName(chat[r].sessionId), chat[r].message,
                            chat[r].aiResponse, t)
    /\ response' = [route |-> "chat",
                    request |-> [sessionId |-> chat[r].sessionId,
                                 message |-> chat[r].message],
                    status |-> 200,
                    response |-> chat[r].aiResponse,
                    sessionId |-> chat[r].sessionId,
                    object |-> caughtResponse("add-message", "put failed")]
    /\ chat' = [chat EXCEPT ![r] = IdleChat]
    /\ UNCHANGED <<issued, scorerVars, clientVars, lastUpdate>>

\* GET /api/progress/{sessionId}: the body of the object's Response, with
\* the default status
ApiProgress(sessionId, t) ==
    /\ sessionId # ""
    /\ GetProgress(idFromName(sessionId), t)
    /\ response' = [route |-> "progress", request |-> [sessionId |-> sessionId],
                    status |-> 200,
                    body |-> progressResponse(idFromName(sessionId), t)]
    /\ UNCHANGED <<chat, issued, scorerVars, clientVars, lastUpdate>>

\* POST /api/history: the body of the object's Response, with the default
\* status
ApiHistory(sessionId, t) ==
    /\ sessionId # ""
    /\ GetHistory(idFromName(sessionId), t)
    /\ response' = [route |-> "history", request |-> [sessionId |-> sessionId],
                    status |-> 200,
                    body |-> historyResponse(idFromName(sessionId), t)]
    /\ UNCHANGED <<chat, issued, scorerVars, clientVars, lastUpdate>>

\* POST /api/difficulty with a field missing
ApiDifficultyInvalid(sessionId, level) ==
    /\ difficultyBodyMissing(sessionId, level)
    /\ response' = errorResponse("difficulty",
                                 [sessionId |-> sessionId, level |-> level],
                                 "Missing sessionId or level", 400)
    /\ UNCHANGED <<sessionVars, chat, issued, scorerVars, clientVars, lastUpdate>>

\* POST /api/difficulty (the Response of /set-difficulty is not looked at)
ApiDifficulty(sessionId, level, t) ==
    /\ ~difficultyBodyMissing(sessionId, level)
    /\ SetDifficulty(idFromName(sessionId), level, t)
    /\ response' = [route |-> "difficulty",
                    request |-> [sessionId |-> sessionId, level |-> level],
                    status |-> 200, level |-> level,
                    object |-> mutationResponse("set-difficulty",
                                                idFromName(sessionId), t)]
    /\ UNCHANGED <<chat, issued, scorerVars, clientVars, lastUpdate>>

\* POST /api/difficulty when the object answers 500 because storage.put
\* threw
ApiDifficultyStoreFails(sessionId, level, t) ==
    /\ ~difficultyBodyMissing(sessionId, level)
    /\ SetDifficultyStoreFails(idFromName(sessionId), level, t)
    /\ response' = [route |-> "difficulty",
                    request |-> [sessionId |-> sessionId, level |-> level],
                    status |-> 200, level |-> level,
                    object |-> caughtResponse("set-difficulty", "put failed")]
    /\ UNCHANGED <<chat, issued, scorerVars, clientVars, lastUpdate>>

\* the platform drops an idle object from memory
Evict(s) ==
    /\ sessionData[s] # null
    /\ sessionData' = [sessionData EXCEPT ![s] = null]
    /\ UNCHANGED <<storage, now, completed, appended, routerVars, response,
                   scorerVars, clientVars, lastUpdate>>

Next ==
    \/ \E t \in Clock, sessionId \in RouterIds : ApiSessionStart(sessionId, t)
    \/ \E sessionId \in BodySessionIds, message \in BodyMessages :
           ApiChatInvalid(sessionId, message)
    \/ \E t \in Clock, r \in Upto(AcceptedChats, MaxChats, 1..MaxInflight),
          sessionId \in BodySessionIds, message \in BodyMessages :
           ApiChatHistory(r, sessionId, message, t)
    \/ \E r \in 1..MaxInflight, outcome \in AiOutcomes : ApiChatProcess(r, outcome)
    \/ \E t \in Clock, r \in 1..MaxInflight : ApiChatAdd(r, t)
    \/ \E t \in Clock, sessionId \in RouterIds : ApiProgress(sessionId, t)
    \/ \E t \in Clock, sessionId \in BodySessionIds : ApiHistory(sessionId, t)
    \/ \E sessionId \in BodySessionIds, level \in BodyLevels :
           ApiDifficultyInvalid(sessionId, level)
    \/ \E t \in Clock, sessionId \in BodySessionIds, level \in BodyLevels :
           ApiDifficulty(sessionId, level, t)
    \/ \E s \in RouterIds : Evict(s)

Spec == Init /\ [][Next]_vars

(***************************************************************************)
(* SpecWorker: the worker with one chat request in progress at a time;     *)
(* the other routes are served between the steps of the chat request.  The *)
(* clock advances by one with every add-message.                           *)
(***************************************************************************)
\* most chat requests the worker accepts (SpecWorker)
MaxWorkerChats == 2

WorkerNext ==
    \/ \E sessionId \in RouterIds : ApiSessionStart(sessionId, now)
    \/ \E sessionId \in BodySessionIds, message \in BodyMessages :
           ApiChatInvalid(sessionId, message)
    \/ \E r \in Upto(AcceptedChats, MaxWorkerChats, {1}),
          sessionId \in BodySessionIds, message \in BodyMessages :
           ApiChatHistory(r, sessionId, message, now)
    \/ \E outcome \in AiOutcomes : ApiChatProcess(1, outcome)
    \/ ApiChatAdd(1, now + 1)
    \/ \E sessionId \in RouterIds : ApiProgress(sessionId, now)
    \/ \E sessionId \in BodySessionIds : ApiHistory(sessionId, now)
    \/ \E sessionId \in BodySessionIds, level \in BodyLevels :
           ApiDifficultyInvalid(sessionId, level)
    \/ \E sessionId \in BodySessionIds, level \in BodyLevels :
           ApiDifficulty(sessionId, level, now)
    \/ \E s \in RouterIds : Evict(s)

SpecWorker == Init /\ [][WorkerNext]_vars

(***************************************************************************)
(* SpecConcurrent: chat requests on one session handled at the same time:  *)
(* the history read, the model call and the add-message of different       *)
(* requests interleave in every order.                                     *)
(***************************************************************************)
\* most chat requests the worker accepts (SpecConcurrent)
MaxConcurrentChats == 3

ConcurrentNext ==
    \/ \E r \in Upto(AcceptedChats, MaxConcurrentChats, 1..MaxInflight),
          message \in Utterances : ApiChatHistory(r, "s1", message, now)
    \/ \E r \in 1..MaxInflight, outcome \in AiOutcomes : ApiChatProcess(r, outcome)
    \/ \E r \in 1..MaxInflight : ApiChatAdd(r, now + 1)

SpecConcurrent == Init /\ [][ConcurrentNext]_vars

(***************************************************************************)
(* SpecPair: the worker serving two sessions.                              *)
(***************************************************************************)
\* most chat requests the worker accepts (SpecPair)
MaxPairChats == 1

\* the level the difficulty requests of SpecPair and SpecStorage carry
StoreLevels == {"advanced"}

PairNext ==
    \/ \E sessionId \in SessionIds : ApiSessionStart(sessionId, now)
    \/ \E r \in Upto(AcceptedChats, MaxPairChats, {1}), sessionId \in SessionIds :
           ApiChatHistory(r, sessionId, Positive, now)
    \/ \E outcome \in {AiResult("answer ")} : ApiChatProcess(1, outcome)
    \/ ApiChatAdd(1, now + 1)
    \/ \E sessionId \in SessionIds : ApiProgress(sessionId, now)
    \/ \E sessionId \in SessionIds : ApiHistory(sessionId, now)
    \/ \E sessionId \in SessionIds, level \in StoreLevels :
           ApiDifficulty(sessionId, level, now)
    \/ \E s \in SessionIds : Evict(s)

SpecPair == Init /\ [][PairNext]_vars

(***************************************************************************)
(* SpecStorage: the worker with a store whose put may throw.               *)
(***************************************************************************)
\* most chat requests the worker accepts (SpecStorage)
MaxStoreChats == 2

StorageNext ==
    \/ \E sessionId \in RouterIds : ApiSessionStart(sessionId, now)
    \/ \E r \in Upto(AcceptedChats, MaxStoreChats, {1}),
          sessionId \in RouterIds, message \in {Positive} :
           ApiChatHistory(r, sessionId, message, now)
    \/ \E outcome \in AiOutcomes : ApiChatProcess(1, outcome)
    \/ ApiChatAdd(1, now + 1)
    \/ ApiChatAddStoreFails(1, now + 1)
    \/ \E sessionId \in RouterIds : ApiProgress(sessionId, now)
    \/ \E sessionId \in RouterIds, level \in StoreLevels :
           ApiDifficulty(sessionId, level, now)
    \/ \E sessionId \in RouterIds, level \in StoreLevels :
           ApiDifficultyStoreFails(sessionId, level, now)
    \/ \E s \in RouterIds : Evict(s)

SpecStorage == Init /\ [][StorageNext]_vars

(***************************************************************************)
(* SpecClient: the App component.  Its handlers are taken as callable      *)
(* whenever the component is mounted; the disabled attributes of the       *)
(* controls only narrow this.  The worker is the environment: a request    *)
(* resolves or rejects.                                                    *)
(***************************************************************************)
MaxClientChats == 2

\* what the textarea may hold
ClientTexts == {"hello", " ", ""}

\* what /api/progress may answer with
ClientProgress ==
    {[totalMessages |-> 0, topicsDiscussed |-> <<>>,
      difficultyLevel |-> "beginner", understandingScore |-> 0],
     [totalMessages |-> 1, topicsDiscussed |-> <<>>,
      difficultyLevel |-> "beginner", understandingScore |-> 15]}

Welcome ==
    [role |-> "assistant",
     content |-> "Hello! I'm your AI study buddy. Ask me anything about programming, CS, or math and we'll learn together!"]

StartError == "Failed to start session. Please refresh."

SendError == "Failed to send message. Try again."

\* createSession() resolved with the id the worker generated
CreateSessionResolves(sessionId) ==
    /\ client.session = "pending"
    /\ client' = [client EXCEPT !.sessionId = sessionId,
                                !.messages = <<Welcome>>,
                                !.session = "started"]
    /\ UNCHANGED <<sentChats, sessionVars, routerVars, response, scorerVars,
                 lastUpdate>>

\* createSession() rejected: the fetch failed or the status was not ok
CreateSessionRejects ==
    /\ client.session = "pending"
    /\ client' = [client EXCEPT !.error = StartError, !.session = "failed"]
    /\ UNCHANGED <<sentChats, sessionVars, routerVars, response, scorerVars,
                 lastUpdate>>

\* the progress effect: load() resolved with data
PollProgress(data) ==
    /\ client.sessionId # ""
    /\ client' = [client EXCEPT !.progress = data]
    /\ UNCHANGED <<sentChats, sessionVars, routerVars, response, scorerVars,
                 lastUpdate>>

\* onChange of the textarea and handleVoiceInput
SetInput(text) ==
    /\ client' = [client EXCEPT !.input = text]
    /\ UNCHANGED <<sentChats, sessionVars, routerVars, response, scorerVars,
                 lastUpdate>>

\* the first line of handleSendMessage without the test of loading
sendBlockedNoLoading(app, text) == trim(text) = "" \/ app.sessionId = ""

\* the first line of handleSendMessage without the test of sessionId
sendBlockedNoSession(app, text) == trim(text) = "" \/ app.loading

\* the first line of handleSendMessage: it returns when this holds
sendBlocked(app, text) ==
    trim(text) = "" \/ app.sessionId = "" \/ app.loading

\* handleSendMessage(text) up to its await of sendMessage
HandleSendMessage(text) ==
    /\ IF sendBlocked(client, text)
       THEN /\ client' = [client EXCEPT !.lastSend = "returned"]
            /\ UNCHANGED sentChats
       ELSE /\ client' =
                   [client EXCEPT
                       !.messages = Append(@, [role |-> "user",
                                               content |-> text]),
                       !.input = "",
                       !.error = "",
                       !.loading = TRUE,
                       !.sending = Append(@, [sessionId |-> client.sessionId,
                                              message |-> text]),
                       !.lastSend = "requested"]
            /\ sentChats' = Append(sentChats,
                                   [sessionId |-> client.sessionId,
                                    message |-> text])
    /\ UNCHANGED <<sessionVars, routerVars, response, scorerVars,
                 lastUpdate>>

\* the sequence without its element i
Without(seq, i) == SubSeq(seq, 1, i - 1) \o SubSeq(seq, i + 1, Len(seq))

\* the sendMessage call i in flight resolved; getProgress then resolved with
\* data, or rejected (data = null), which the inner catch swallows
SendMessageResolves(i, aiResponse, data) ==
    /\ i \in 1..Len(client.sending)
    /\ client' =
           [client EXCEPT
               !.messages = Append(@, [role |-> "assistant",
                                       content |-> aiResponse]),
               !.progress = IF data = null THEN @ ELSE data,
               !.loading = FALSE,
               !.sending = Without(@, i)]
    /\ UNCHANGED <<sentChats, sessionVars, routerVars, response, scorerVars,
                 lastUpdate>>

\* the sendMessage call i in flight rejected
SendMessageRejects(i) ==
    /\ i \in 1..Len(client.sending)
    /\ client' = [client EXCEPT !.error = SendError,
                                !.loading = FALSE,
                                !.sending = Without(@, i)]
    /\ UNCHANGED <<sentChats, sessionVars, routerVars, response, scorerVars,
                 lastUpdate>>

\* the page is reloaded: the component is mounted anew
Reload ==
    /\ client # MountedApp
    /\ client' = MountedApp
    /\ UNCHANGED <<sentChats, sessionVars, routerVars, response, scorerVars,
                 lastUpdate>>

ClientNext ==
    \/ \E sessionId \in SessionIds : CreateSessionResolves(sessionId)
    \/ CreateSessionRejects
    \/ \E data \in ClientProgress : PollProgress(data)
    \/ \E text \in ClientTexts : SetInput(text)
    \/ \E text \in Upto(Len(sentChats), MaxClientChats, {client.input}) :
           HandleSendMessage(text)
    \/ \E i \in 1..Len(client.sending), data \in ClientProgress \cup {null} :
           SendMessageResolves(i, "answer", data)
    \/ \E i \in 1..Len(client.sending) : SendMessageRejects(i)
    \/ Reload

SpecClient == Init /\ [][ClientNext]_vars

\* every sendMessage call in flight settles: the fetch resolves or rejects
SendMessageSettles ==
    \E i \in 1..Len(client.sending) :
        \/ \E data \in ClientProgress \cup {null} :
               SendMessageResolves(i, "answer", data)
        \/ SendMessageRejects(i)

\* SpecClientLive: the App component when no request stays pending for ever
SpecClientLive == SpecClient /\ WF_vars(SendMessageSettles)

(***************************************************************************)
(* The properties.                                                         *)
(***************************************************************************)
\* the records of session s that exist: in memory and in the store
Records(s) == {d \in {sessionData[s], storage[s]} : d # null}

\* the record an operation on s starts from
Current(s) ==
    IF sessionData[s] # null THEN sessionData[s]
    ELSE IF storage[s] # null THEN storage[s]
    ELSE NewSession(now)

\* an add-message on s1 completes in this step
AddStep == completed'["s1"] = completed["s1"] + 1

\* C1: in every reachable state of a session, whatever sequence of init,
\* addMessage, setDifficulty, getHistory and getProgress led to it,
\* understandingScore is an integer between 0 and 100.
C1_ScoreInRange ==
    \A d \in Records("s1") : d.metrics.understandingScore \in 0..100

\* seven or more add-messages have run and the score stands at its upper limit
C1_Witness ==
    /\ sessionData["s1"] # null
    /\ completed["s1"] >= 7
    /\ sessionData["s1"].metrics.understandingScore = 100

\* C2: totalMessages is exactly twice the number of completed addMessage
\* calls, whatever else happened: it never decreases and the cut of the
\* history, init, setDifficulty and the reads leave it alone.
C2_TotalMessages ==
    /\ \A d \in Records("s1") : d.metrics.totalMessages = 2 * completed["s1"]
    /\ Records("s1") = {} => completed["s1"] = 0

\* the history has been cut and the counter has passed the history's length
C2_Witness ==
    /\ sessionData["s1"] # null
    /\ completed["s1"] > 26
    /\ sessionData["s1"].metrics.totalMessages > Len(sessionData["s1"].history)

\* C3: after every operation the history holds at most 50 turns; after 26
\* addMessage calls on a new session it holds 50 and totalMessages is 52.
C3_HistoryBound ==
    \A d \in Records("s1") :
        /\ Len(d.history) <= 50
        /\ completed["s1"] = 26 =>
              Len(d.history) = 50 /\ d.metrics.totalMessages = 52

\* the 26th add-message has completed
C3_Witness ==
    /\ sessionData["s1"] # null
    /\ completed["s1"] = 26
    /\ response.op = "add-message"

\* C4: the cut is first in, first out: after n addMessage calls the history
\* is, in order, the last min(2n, 50) of all the turns ever appended.
C4_Fifo ==
    \A d \in Records("s1") :
        LET all == appended["s1"]
            k   == Min(2 * completed["s1"], 50)
        IN  /\ Len(all) = 2 * completed["s1"]
            /\ Len(d.history) = k
            /\ \A i \in 1..k : d.history[i] = all[Len(all) - k + i]

\* turns have been evicted: the history no longer starts with the first turn
C4_Witness ==
    /\ sessionData["s1"] # null
    /\ completed["s1"] >= 27
    /\ sessionData["s1"].history[1] # appended["s1"][1]
    /\ sessionData["s1"].history[1] = appended["s1"][2 * completed["s1"] - 49]

\* C5: between operations the history has even length, starts with a user
\* turn and alternates user, assistant: no assistant turn is left without
\* the user turn before it.
C5_Pairs ==
    \A d \in Records("s1") :
        /\ Len(d.history) % 2 = 0
        /\ \A i \in 1..Len(d.history) :
              d.history[i].role = IF i % 2 = 1 THEN "user" ELSE "assistant"

\* the history has been cut and starts with a user turn
C5_Witness ==
    /\ sessionData["s1"] # null
    /\ completed["s1"] >= 27
    /\ Len(sessionData["s1"].history) = 50
    /\ sessionData["s1"].history[1].role = "user"

\* C6: one addMessage moves difficultyLevel by at most one tier, from any
\* tier and score (those setDifficulty produced included): beginner never
\* becomes advanced and advanced never becomes beginner in one update.
C6_NoTierSkip ==
    [][AddStep =>
          LET old == Current("s1").metrics.difficultyLevel
              new == sessionData'["s1"].metrics.difficultyLevel
          IN  /\ ~(old = "beginner" /\ new = "advanced")
              /\ ~(old = "advanced" /\ new = "beginner")]_vars

\* an add-message left the session at intermediate with a score above 60:
\* it started from beginner and stopped one tier up
C6_Witness ==
    /\ sessionData["s1"] # null
    /\ response.op = "add-message"
    /\ sessionData["s1"].metrics.difficultyLevel = "intermediate"
    /\ sessionData["s1"].metrics.understandingScore > 60

\* the tier the ordered rules give for an old tier and a new score
C7_Rules(old, score) ==
    IF old = "intermediate" /\ score > 60 THEN "advanced"
    ELSE IF old = "beginner" /\ score > 30 THEN "intermediate"
    ELSE IF old = "advanced" /\ score < 55 THEN "intermediate"
    ELSE IF old = "intermediate" /\ score < 25 THEN "beginner"
    ELSE old

\* C7: the tier after addMessage is the function of the old tier and the
\* new score the ordered rules give: intermediate to advanced iff the score
\* is above 60, beginner to intermediate iff above 30, advanced to
\* intermediate iff below 55, intermediate to beginner iff below 25, and
\* unchanged otherwise.
C7_TierFunction ==
    [][AddStep =>
          sessionData'["s1"].metrics.difficultyLevel =
              C7_Rules(Current("s1").metrics.difficultyLevel,
                       sessionData'["s1"].metrics.understandingScore)]_vars

\* an add-message left the session at advanced on a score just above 60
C7_Witness ==
    /\ sessionData["s1"] # null
    /\ response.op = "add-message"
    /\ sessionData["s1"].metrics.difficultyLevel = "advanced"
    /\ sessionData["s1"].metrics.understandingScore \in 61..75

\* C8: in every reachable state difficultyLevel is beginner, intermediate
\* or advanced, whatever chat and difficulty requests (with any non-empty
\* level in the body) the worker received.
C8_LevelInEnum ==
    \A s \in SessionIds : \A d \in Records(s) :
        d.metrics.difficultyLevel \in {"beginner", "intermediate", "advanced"}

\* p occurs in w as a run of consecutive words
OccursIn(p, w) ==
    \E i \in 0..(Len(w) - Len(p)) : \A j \in 1..Len(p) : w[i + j] = p[j]

\* the entries of both tables
CueEntries ==
    {positiveWeights[i] : i \in 1..Len(positiveWeights)}
      \cup {negativeWeights[i] : i \in 1..Len(negativeWeights)}

\* C9: for every utterance, the empty one included, the delta of the scorer
\* lies between -12 and 15, and it is 0 when no cue phrase occurs in it.
C9_DeltaRange ==
    scPc = "scored" =>
        /\ scDelta \in -12..15
        /\ (\A e \in CueEntries : ~OccursIn(e[1], words(scMessage))) => scDelta = 0

\* "understood great" sums to 22 and is capped
C9_Witness ==
    /\ scPc = "scored"
    /\ scMessage = << <<"understood">>, <<"great">> >>
    /\ scDelta = 15

RECURSIVE SumWeights(_)
SumWeights(S) ==
    IF S = {} THEN 0
    ELSE LET e == CHOOSE x \in S : TRUE IN e[2] + SumWeights(S \ {e})

\* the entries of a table that count for the words w: those of at most
\* three words that occur in w and are no part of a longer entry of the same
\* table that occurs in w
Counted(table, w) ==
    LET present == {e \in {table[i] : i \in 1..Len(table)} :
                       Len(e[1]) <= 3 /\ OccursIn(e[1], w)}
    IN  {e \in present :
            ~\E l \in present : Len(l[1]) > Len(e[1]) /\ OccursIn(e[1], l[1])}

\* C10: within one table, when a longer cue phrase matches the utterance
\* none of its sub-phrases adds weight, and each phrase counts at most
\* once: "ok got it" scores 7, not 8 + 10 + 7.
C10_NoDoubleCount ==
    scPc = "scored" =>
        LET w == words(scMessage)
            p == SumWeights(Counted(positiveWeights, w))
            n == SumWeights(Counted(negativeWeights, w))
        IN  /\ sumMatches(sortedPositive, grams(w)) = p
            /\ sumMatches(sortedNegative, grams(w)) = n
            /\ scDelta = Max(-12, Min(15, p + n))
            /\ w = <<"ok", "got", "it">> => scDelta = 7

\* "Ok got it!" has been scored
C10_Witness ==
    /\ scPc = "scored"
    /\ scMessage = << <<"Ok">>, <<"got">>, <<"it", "!">> >>
    /\ scDelta = 7

\* the utterance of the add-message that completes in this step
AddedMessage == appended'["s1"][Len(appended'["s1"]) - 1].content

\* C11: on a new session, addMessage with "I understand, that makes sense,
\* thanks" has a raw delta of 12 + 10 + 3 = 25, capped to 15: it leaves
\* understandingScore at 15 and difficultyLevel at beginner.
C11_FirstPositive ==
    [][(/\ AddStep
        /\ completed["s1"] = 0
        /\ Current("s1").metrics.difficultyLevel = "beginner"
        /\ AddedMessage = Positive)
       => /\ rawDelta(Positive) = 12 + 10 + 3
          /\ sessionData'["s1"].metrics.understandingScore = 15
          /\ sessionData'["s1"].metrics.difficultyLevel = "beginner"
          /\ storage'["s1"] = sessionData'["s1"]]_vars

\* the first add-message of a session carried the positive utterance
C11_Witness ==
    /\ sessionData["s1"] # null
    /\ response.op = "add-message"
    /\ completed["s1"] = 1
    /\ sessionData["s1"].history[1].content = Positive
    /\ sessionData["s1"].metrics.understandingScore = 15
    /\ sessionData["s1"].metrics.difficultyLevel = "beginner"

\* C12: from a new session, under positive messages only, the tier turns
\* intermediate at the first update whose score exceeds 30 and advanced at
\* the first later update whose score exceeds 60; then, under "confused, I
\* don't understand" only, it turns intermediate at the first update whose
\* score is below 55, and is not beginner at that step.
C12_Scenario ==
    [][AddStep =>
          LET old  == Current("s1").metrics
              new  == sessionData'["s1"].metrics
              was  == old.difficultyLevel
              tier == new.difficultyLevel
              up   == Negative \notin Sent("s1")'
          IN  /\ up =>
                    /\ (was = "beginner" /\ tier = "intermediate")
                          <=> (old.understandingScore <= 30
                                 /\ new.understandingScore > 30)
                    /\ (was # "advanced" /\ tier = "advanced")
                          <=> (/\ old.understandingScore > 30
                               /\ old.understandingScore <= 60
                               /\ new.understandingScore > 60)
                    /\ tier # was => <<was, tier>> \in
                          {<<"beginner", "intermediate">>,
                           <<"intermediate", "advanced">>}
              /\ (~up /\ was = "advanced") =>
                    /\ tier = "intermediate" <=> new.understandingScore < 55
                    /\ tier = "advanced" <=> new.understandingScore >= 55
                    /\ tier # "beginner"]_vars

\* five positive messages made the session advanced at 75, two negative
\* ones brought it to 51 and back to intermediate
C12_Witness ==
    /\ sessionData["s1"] # null
    /\ response.op = "add-message"
    /\ completed["s1"] = 7
    /\ Negative \in Sent("s1")
    /\ sessionData["s1"].metrics.understandingScore = 51
    /\ sessionData["s1"].metrics.difficultyLevel = "intermediate"

\* the last response of the worker came from this route
Answered(route) == "route" \in DOMAIN response /\ response.route = route

\* ai.run threw, or gave a result without response text
Failed(outcome) == IF outcome.thrown THEN TRUE ELSE outcome.value.response = ""

\* the chat request in slot r is answered in this step, after its model call
\* ended as outcome says
ChatAnswered(r) == chat[r].pc = "add" /\ chat'[r].pc = "idle"

\* C13: when the model invocation of a chat request fails or times out, no
\* turn pair is written for the exchange: history, totalMessages,
\* understandingScore and difficultyLevel of the session are the same after
\* the chat request as before it.
C13_FailedChatWritesNothing ==
    [][\A r \in 1..MaxInflight :
          (ChatAnswered(r) /\ Failed(chat[r].outcome)) =>
              LET before == Current(chat[r].sessionId)
                  after  == sessionData'[chat[r].sessionId]
              IN  /\ after.history = before.history
                  /\ after.metrics.totalMessages = before.metrics.totalMessages
                  /\ after.metrics.understandingScore
                        = before.metrics.understandingScore
                  /\ after.metrics.difficultyLevel
                        = before.metrics.difficultyLevel]_vars

\* C14: a chat request with both fields present never surfaces a model
\* failure as an error: when the model call throws or returns no response
\* text, processMessage returns the fixed apology string and the chat
\* caller gets a success response carrying it.
C14_FailureBecomesApology ==
    /\ [](\A r \in 1..MaxInflight :
             (chat[r].pc = "add" /\ Failed(chat[r].outcome)) =>
                 chat[r].aiResponse =
                     "I apologize, but I'm having trouble processing your "
                       \o "question right now. Could you please try "
                       \o "rephrasing it, or ask something else? "
                       \o "I'm here to help!")
    /\ []((/\ Answered("chat")
           /\ response.request.sessionId # ""
           /\ response.request.message # <<>>) => response.status = 200)
    /\ [][\A r \in 1..MaxInflight :
             ChatAnswered(r) =>
                 /\ Answered("chat")'
                 /\ response'.status = 200
                 /\ response'.response = chat[r].aiResponse
                 /\ response'.sessionId = chat[r].sessionId]_vars

\* a chat request whose model call threw was answered 200 with the apology
C14_Witness ==
    /\ Answered("chat")
    /\ response.status = 200
    /\ response.response = Apology
    /\ completed["s1"] >= 1

\* C15: GET /api/progress/{id} for a session identifier that was never
\* started and never chatted with returns status 404 with the body
\* {error: "Session not found"}.
C15_UnknownProgress ==
    (/\ Answered("progress")
     /\ response.request.sessionId \notin issued
     /\ completed[response.request.sessionId] = 0
     /\ storage[response.request.sessionId] = null
     /\ \A r \in 1..MaxInflight : chat[r].pc = "idle")
    => /\ response.status = 404
       /\ response.body = [error |-> "Session not found"]

\* the body of the request the last response answers lacks a field
MissingField ==
    \/ Answered("chat")
         /\ (response.request.sessionId = "" \/ response.request.message = <<>>)
    \/ Answered("difficulty")
         /\ (response.request.sessionId = "" \/ response.request.level = "")

\* C16: a chat request missing sessionId or message, and a difficulty
\* request missing sessionId or level, is answered with status 400 and an
\* {error} body, and no operation of a session object is invoked: every
\* session's record is unchanged.
C16_MissingFields ==
    /\ [](MissingField =>
             /\ response.status = 400
             /\ response.error = IF response.route = "chat"
                                 THEN "Missing sessionId or message"
                                 ELSE "Missing sessionId or level")
    /\ [][(MissingField' /\ response' # response) =>
             UNCHANGED <<sessionData, storage, completed, appended>>]_vars

\* a chat request without a message was refused while the session had a
\* record with turns
C16_Witness ==
    /\ Answered("chat")
    /\ response.status = 400
    /\ response.request = [sessionId |-> "s1", message |-> <<>>]
    /\ completed["s1"] >= 1
    /\ sessionData["s1"] # null

\* C17: getHistory on a session that has no stored state returns an empty
\* history and difficultyLevel beginner with a success status, never an
\* error.
C17_HistoryDefaults ==
    (response.op = "history" /\ storage["s1"] = null) =>
        /\ response.status = 200
        /\ "error" \notin DOMAIN response
        /\ response.history = <<>>
        /\ response.difficultyLevel = "beginner"

\* the history of a session with nothing stored was read
C17_Witness ==
    /\ response.op = "history"
    /\ storage["s1"] = null
    /\ completed["s1"] = 0

\* C18: addMessage (and setDifficulty) invoked on a session for which no
\* state exists yet fails with the NotInitialized error (status 500) and
\* creates or persists no record.
C18_NotInitialized ==
    [][(/\ sessionData["s1"] = null
        /\ storage["s1"] = null
        /\ response'.op \in {"add-message", "set-difficulty"})
       => /\ response'.status = 500
          /\ sessionData'["s1"] = null
          /\ storage'["s1"] = null]_vars

\* C19: init(sessionId) is idempotent and changes only the sessionId field:
\* history, metrics and createdAt are the same after init as before it, and
\* init(x) followed by init(x) leaves the same record as a single init(x),
\* also on a session that already has turns.
C19_InitIdempotent ==
    [][response'.op = "init" =>
          LET before == Current("s1")
              after  == sessionData'["s1"]
          IN  /\ after.sessionId = "s1"
              /\ after.history = before.history
              /\ after.metrics = before.metrics
              /\ after.createdAt = before.createdAt
              /\ storage'["s1"] = after
              /\ response.op = "init" =>
                    /\ after = sessionData["s1"]
                    /\ storage'["s1"] = storage["s1"]]_vars

\* init answered on a session that has turns
C19_Witness ==
    /\ response.op = "init"
    /\ sessionData["s1"] # null
    /\ completed["s1"] >= 2
    /\ Len(sessionData["s1"].history) = 2 * completed["s1"]
    /\ sessionData["s1"].sessionId = "s1"

\* C20: setDifficulty(level) sets difficultyLevel to level regardless of the
\* current score (no hysteresis rule is applied), leaves history,
\* totalMessages, understandingScore, lastInteraction, sessionId and
\* createdAt unchanged, and the new tier is in the durable record before
\* success is returned.
C20_SetDifficultyFrame ==
    [][\A level \in Levels :
          FetchSetDifficulty("s1", level) =>
              LET before == Current("s1")
                  after  == sessionData'["s1"]
              IN  /\ after.metrics.difficultyLevel = level
                  /\ after.history = before.history
                  /\ after.metrics.totalMessages = before.metrics.totalMessages
                  /\ after.metrics.understandingScore
                        = before.metrics.understandingScore
                  /\ after.metrics.lastInteraction
                        = before.metrics.lastInteraction
                  /\ after.sessionId = before.sessionId
                  /\ after.createdAt = before.createdAt
                  /\ response'.status = 200
                  /\ storage'["s1"] # null
                  /\ storage'["s1"].metrics.difficultyLevel = level
                  /\ storage'["s1"] = after]_vars

\* the tier was set to beginner while the score stood above 60, where the
\* level transitions would have it intermediate or advanced
C20_Witness ==
    /\ response.op = "set-difficulty"
    /\ sessionData["s1"] # null
    /\ sessionData["s1"].metrics.understandingScore > 60
    /\ sessionData["s1"].metrics.difficultyLevel = "beginner"
    /\ storage["s1"] = sessionData["s1"]

\* the last response reports a successful start, chat or difficulty request
\* on session s
Mutated(s) ==
    \/ Answered("start") /\ response.sessionId = s
    \/ /\ Answered("chat") \/ Answered("difficulty")
       /\ response.status = 200
       /\ response.request.sessionId = s

\* C21: after any successful init, addMessage or setDifficulty the durable
\* record equals the record in memory, so evicting the object and loading
\* it again from the store yields an identical record (sessionId, history,
\* metrics, createdAt).
C21_RoundTrip ==
    /\ [](\A s \in RouterIds :
             /\ Mutated(s) => storage[s] # null
             /\ (sessionData[s] # null /\ storage[s] # null) =>
                   /\ sessionData[s].sessionId = storage[s].sessionId
                   /\ sessionData[s].history = storage[s].history
                   /\ sessionData[s].metrics = storage[s].metrics
                   /\ sessionData[s].createdAt = storage[s].createdAt)
    /\ [][\A s \in RouterIds :
             (/\ sessionData[s] = null
              /\ storage[s] # null
              /\ sessionData'[s] # null
              /\ storage'[s] = storage[s]) => sessionData'[s] = storage[s]]_vars

\* the object of a session with stored turns has been evicted
C21_Witness ==
    /\ sessionData["s1"] = null
    /\ storage["s1"] # null
    /\ Len(storage["s1"].history) >= 2
    /\ Mutated("s1")

\* C22: when the store fails during the persist step of addMessage or
\* setDifficulty, the HTTP caller of /api/chat or /api/difficulty receives
\* a status 500 error response, not a success response.
C22_StorageFailure500 ==
    (/\ Answered("chat") \/ Answered("difficulty")
     /\ "object" \in DOMAIN response
     /\ response.object.status = 500) => response.status = 500

\* the user messages of a sequence of turns, in order
RECURSIVE UserMessages(_)
UserMessages(turns) ==
    IF turns = <<>> THEN <<>>
    ELSE (IF Head(turns).role = "user" THEN <<Head(turns).content>> ELSE <<>>)
           \o UserMessages(Tail(turns))

\* score and tier after the user messages are applied one after the other
\* to a new session
RECURSIVE Replay(_, _, _)
Replay(messages, score, tier) ==
    IF messages = <<>> THEN <<score, tier>>
    ELSE LET next == Max(0, Min(100, score + scoreDelta(Head(messages))))
         IN  Replay(Tail(messages), next, C7_Rules(tier, next))

\* C23: for any interleaving of concurrent chat requests on one session
\* (history read, model call and addMessage as separate steps) every
\* addMessage is atomic and none is lost: after k of them totalMessages is
\* 2k, the turn pairs are in the history in the order the addMessage calls
\* completed, and score and tier are those of applying the k user messages
\* one after the other in that order.
C23_Concurrent ==
    /\ [](\A d \in Records("s1") :
             LET all == appended["s1"]
                 seq == Replay(UserMessages(all), 0, "beginner")
             IN  /\ d.metrics.totalMessages = 2 * completed["s1"]
                 /\ Len(all) = 2 * completed["s1"]
                 /\ d.history = SliceLast(all, 50)
                 /\ d.metrics.understandingScore = seq[1]
                 /\ d.metrics.difficultyLevel = seq[2])
    /\ [][\A r \in 1..MaxInflight :
             ChatAnswered(r) =>
                 LET h == sessionData'["s1"].history
                     n == Len(sessionData'["s1"].history)
                 IN  /\ completed'["s1"] = completed["s1"] + 1
                     /\ n = Len(Current("s1").history) + 2
                     /\ h[n - 1].role = "user"
                     /\ h[n - 1].content = chat[r].message
                     /\ h[n].role = "assistant"
                     /\ h[n].content = <<<<chat[r].aiResponse>>>>
                     /\ SubSeq(h, 1, n - 2) = Current("s1").history]_vars

\* one request completed its add-message while another, which read the
\* history before that, still waits to add its own turns
C23_Witness ==
    /\ completed["s1"] = 2
    /\ \E r \in 1..MaxInflight :
          /\ chat[r].pc = "add"
          /\ chat[r].history = <<>>
          /\ chat[r].message = Negative
    /\ sessionData["s1"] # null
    /\ Len(sessionData["s1"].history) = 4

\* this step serves a request addressed to session id a: a start that
\* generated a, or a step of a chat, progress, history or difficulty
\* request that names a
StepFor(a) ==
    \E t \in {now, now + 1} :
        \/ ApiSessionStart(a, t)
        \/ ApiProgress(a, t)
        \/ ApiHistory(a, t)
        \/ \E level \in BodyLevels \cup Levels : ApiDifficulty(a, level, t)
        \/ \E r \in 1..MaxInflight :
              \/ \E message \in Utterances : ApiChatHistory(r, a, message, t)
              \/ /\ chat[r].pc # "idle"
                 /\ chat[r].sessionId = a
                 /\ \/ \E outcome \in AiOutcomes : ApiChatProcess(r, outcome)
                    \/ ApiChatAdd(r, t)

\* C24: sessions are independent: any operation (chat, difficulty, history,
\* progress, start) addressed to session id A leaves the record in memory
\* and the durable record of every other session id B unchanged, under any
\* interleaving.
C24_Independent ==
    [][/\ \A a \in SessionIds :
             StepFor(a) =>
                 \A b \in SessionIds \ {a} :
                     /\ sessionData'[b] = sessionData[b]
                     /\ storage'[b] = storage[b]
       /\ (sessionData' # sessionData \/ storage' # storage) =>
             \E a \in SessionIds : StepFor(a) \/ Evict(a)]_vars

\* both sessions have a stored record; s1 has turns, s2 has none and had
\* its level set
C24_Witness ==
    /\ storage["s1"] # null
    /\ storage["s2"] # null
    /\ Len(storage["s1"].history) = 2
    /\ storage["s2"].history = <<>>
    /\ storage["s2"].metrics.difficultyLevel = "advanced"
    /\ storage["s1"].metrics.difficultyLevel = "beginner"

\* C25: a session created by /api/session/start (or first touched by any
\* operation) starts with understandingScore 0, difficultyLevel beginner,
\* empty history and totalMessages 0.
C25_InitialState ==
    [][\A s \in RouterIds :
          (sessionData[s] = null /\ storage[s] = null /\ sessionData'[s] # null)
          => LET d == sessionData'[s] IN
             IF completed'[s] = completed[s]
             THEN /\ d.history = <<>>
                  /\ d.metrics.totalMessages = 0
                  /\ d.metrics.understandingScore = 0
                  /\ Answered("difficulty")' \/ d.metrics.difficultyLevel = "beginner"
                  /\ (Answered("start")' /\ response' # response) =>
                        /\ d.sessionId = response'.sessionId
                        /\ d.metrics.difficultyLevel = "beginner"
                        /\ storage'[s] = d
             ELSE /\ Len(d.history) = 2
                  /\ d.metrics.totalMessages = 2
                  /\ d.metrics.understandingScore
                        = Max(0, Min(100, 0 + scoreDelta(d.history[1].content)))
                  /\ d.metrics.difficultyLevel
                        = C7_Rules("beginner", d.metrics.understandingScore)]_vars

\* /api/session/start has just created the session
C25_Witness ==
    /\ Answered("start")
    /\ response.sessionId = "s1"
    /\ sessionData["s1"] # null
    /\ sessionData["s1"].sessionId = "s1"
    /\ sessionData["s1"].history = <<>>
    /\ sessionData["s1"].metrics.understandingScore = 0
    /\ storage["s1"] = sessionData["s1"]

\* C26: for every chat request the model is invoked with the system prompt
\* of the tier returned by the session's history read for that request,
\* followed by at most the last 10 turns of that history snapshot in order,
\* followed by the new user message as the final entry.
C26_Prompt ==
    \A r \in 1..MaxInflight :
        chat[r].pc = "add" =>
            LET m    == chat[r].messages
                h    == chat[r].history
                n    == Min(10, Len(h))
                tier == chat[r].difficultyLevel
            IN  /\ Len(m) = n + 2
                /\ m[1].role = "system"
                /\ "content" \in DOMAIN m[1]
                /\ tier = "beginner" =>
                      m[1].content = <<<<SYSTEM_PROMPTS.beginner>>>>
                /\ tier = "intermediate" =>
                      m[1].content = <<<<SYSTEM_PROMPTS.intermediate>>>>
                /\ tier = "advanced" =>
                      m[1].content = <<<<SYSTEM_PROMPTS.advanced>>>>
                /\ \A i \in 1..n :
                      /\ m[1 + i].role = h[Len(h) - n + i].role
                      /\ m[1 + i].content = h[Len(h) - n + i].content
                /\ m[n + 2] = [role |-> "user", content |-> chat[r].message]

\* C27: the read-only operations getHistory and getProgress never change a
\* session's history or metrics and never write to the durable store; only
\* init, addMessage and setDifficulty write the record.
C27_ReadOnly ==
    [][/\ response'.op \in {"history", "progress"} =>
             /\ storage' = storage
             /\ sessionData'["s1"] # null
             /\ sessionData'["s1"].history = Current("s1").history
             /\ sessionData'["s1"].metrics = Current("s1").metrics
             /\ response'.status = 200
       /\ storage' # storage =>
             response'.op \in {"init", "add-message", "set-difficulty"}]_vars

\* progress was read on a session with stored turns
C27_Witness ==
    /\ response.op = "progress"
    /\ response.messageCount >= 2
    /\ storage["s1"] # null
    /\ storage["s1"] = sessionData["s1"]

\* C28: once a session id has been contacted by any operation its
\* createdAt never changes afterwards, also across eviction and reload of
\* the object, so the sessionAge reported by getProgress never decreases
\* under a non-decreasing clock.
C28_CreatedAtConstant ==
    [][/\ \A s \in RouterIds :
             \A d \in Records(s) :
                 \A e \in {sessionData'[s], storage'[s]} \ {null} :
                     e.createdAt = d.createdAt
       /\ (/\ Answered("progress")
           /\ Answered("progress")'
           /\ response'.request.sessionId = response.request.sessionId)
          => response'.body.sessionAge >= response.body.sessionAge]_vars

\* C30: each addMessage sets understandingScore to
\* max(0, min(100, old + delta)), delta being the capped result of the
\* scorer, so one update raises the score by at most 15 and lowers it by
\* at most 12.
C30_ScoreUpdate ==
    [][AddStep =>
          LET old   == Current("s1").metrics.understandingScore
              new   == sessionData'["s1"].metrics.understandingScore
              delta == scoreDelta(AddedMessage)
              sum   == old + delta
          IN  /\ delta \in -12..15
              /\ new = (IF sum < 0 THEN 0 ELSE IF sum > 100 THEN 100 ELSE sum)
              /\ new - old <= 15
              /\ old - new <= 12
              /\ storage'["s1"].metrics.understandingScore = new]_vars

\* a negative message met a score of 3 and left it at 0
C30_Witness ==
    /\ response.op = "add-message"
    /\ sessionData["s1"] # null
    /\ completed["s1"] = 3
    /\ sessionData["s1"].metrics.understandingScore = 0
    /\ sessionData["s1"].history[1].content = Positive
    /\ sessionData["s1"].history[5].content = Negative

\* C29: when session creation failed the session id stays empty and the
\* error stays shown, and until the page is reloaded no chat request is
\* sent: every handleSendMessage returns before calling the API.
C29_FailedStartBlocksChat ==
    /\ [](client.session = "failed" =>
             /\ client.sessionId = ""
             /\ client.error = StartError
             /\ client.sending = <<>>
             /\ client.lastSend # "requested")
    /\ [][client.session = "failed" =>
             /\ sentChats' = sentChats
             /\ client'.session = "failed" \/ client' = MountedApp]_vars

\* the start failed on a reloaded page, a message was typed and
\* handleSendMessage returned
C29_Witness ==
    /\ client.session = "failed"
    /\ client.input = "hello"
    /\ client.lastSend = "returned"
    /\ Len(sentChats) = 1

\* C31: if one addMessage changes the tier and the next addMessage changes
\* it back, the score moved by at least 7 points between the two updates:
\* a score moving by less than 7 around a threshold never flips the tier
\* in consecutive updates.
C31_HysteresisGap ==
    [][(/\ AddStep
        /\ Undoes(lastUpdate["s1"],
                  Current("s1").metrics.difficultyLevel,
                  sessionData'["s1"].metrics.difficultyLevel))
       => /\ lastUpdate["s1"].score = Current("s1").metrics.understandingScore
          /\ Abs(sessionData'["s1"].metrics.understandingScore
                   - lastUpdate["s1"].score) >= 7]_vars

\* an update to 31 made the session intermediate and the next one, to 24,
\* made it beginner again
C31_Witness ==
    /\ lastUpdate["s1"] # null
    /\ lastUpdate["s1"].undid
    /\ lastUpdate["s1"].to = "beginner"
    /\ lastUpdate["s1"].score = 24
    /\ completed["s1"] = 6
    /\ sessionData["s1"].history[11].content = Lost

\* the score and the tier of a record agree
TierMatchesScore(metrics) ==
    LET score == metrics.understandingScore
        tier  == metrics.difficultyLevel
    IN  /\ tier = "beginner" => score <= 30
        /\ tier = "intermediate" => 25 <= score /\ score <= 60
        /\ tier = "advanced" => score >= 55

\* C33: without setDifficulty, tier and score agree after every
\* addMessage: beginner has a score of at most 30, intermediate one from 25
\* to 60, advanced one of at least 55; so an addMessage whose delta is 0
\* changes neither the score nor the tier.
C33_TierScoreConsistent ==
    /\ [](\A d \in Records("s1") : TierMatchesScore(d.metrics))
    /\ [][(AddStep /\ scoreDelta(AddedMessage) = 0) =>
             /\ sessionData'["s1"].metrics.understandingScore =
                    Current("s1").metrics.understandingScore
             /\ sessionData'["s1"].metrics.difficultyLevel =
                    Current("s1").metrics.difficultyLevel]_vars

\* "hello" met a beginner with a score of 30 and an advanced session
\* with a score of 63 was sent "confused, I don't understand"
C33_Witness ==
    /\ sessionData["s1"] # null
    /\ completed["s1"] = 7
    /\ sessionData["s1"].history[5].content = Hello
    /\ sessionData["s1"].history[5 + 2].content = Positive
    /\ sessionData["s1"].history[13].content = Negative
    /\ sessionData["s1"].metrics.understandingScore = 63
    /\ sessionData["s1"].metrics.difficultyLevel = "advanced"

\* C32: the timestamps of the turns of the history never decrease in
\* sequence order, even when two add-message calls read the same clock
\* value, and in each pair the assistant's timestamp is the user's plus 1.
C32_TimestampsOrdered ==
    \A s \in RouterIds :
        \A d \in Records(s) :
            /\ \A i \in 1..(Len(d.history) - 1) :
                  d.history[i].timestamp <= d.history[i + 1].timestamp
            /\ \A i \in {j \in 1..Len(d.history) : j % 2 = 1} :
                  d.history[i + 1].timestamp = d.history[i].timestamp + 1

\* C34: between operations history.length = min(totalMessages, 50), and
\* the messageCount of /progress is min(metrics.totalMessages, 50).
C34_LengthIsMinOfCounter ==
    /\ \A d \in Records("s1") :
          Len(d.history) = Min(d.metrics.totalMessages, HistoryLimit)
    /\ (response.op = "progress" /\ response.status = 200) =>
          response.messageCount =
              Min(response.metrics.totalMessages, HistoryLimit)

\* /progress answered after the counter passed 50
C34_Witness ==
    /\ response.op = "progress"
    /\ response.status = 200
    /\ response.metrics.totalMessages = 54
    /\ response.messageCount = 50
    /\ storage["s1"] # null
    /\ Len(storage["s1"].history) = 50

\* C35: every stored record has the sessionId under which its object is
\* addressed, whatever requests the router received, chat and difficulty
\* requests for an id that /api/session/start never generated included.
C35_StoredSessionId ==
    \A s \in RouterIds :
        storage[idFromName(s)] # null => storage[idFromName(s)].sessionId = s

\* C36: the client has at most one chat request in flight: while loading
\* is true handleSendMessage sends nothing, and loading returns to false
\* after every send, resolved or rejected, so that the next message can be
\* sent.
C36_OneChatInFlight ==
    /\ [](/\ Len(client.sending) <= 1
          /\ client.loading <=> Len(client.sending) = 1
          /\ (~client.loading /\ client.session = "started") =>
                 ~sendBlocked(client, "hello"))
    /\ [][Len(sentChats') > Len(sentChats) =>
             ~client.loading /\ client'.loading]_vars
    /\ [][(client.loading /\ \E text \in ClientTexts : HandleSendMessage(text))
             => /\ sentChats' = sentChats
                /\ client'.sending = client.sending
                /\ client'.lastSend = "returned"]_vars
    /\ (client.loading ~> ~client.loading)

\* a first message was answered, a second one was rejected, and the client
\* is ready for the next
C36_Witness ==
    /\ Len(sentChats) = 2
    /\ ~client.loading
    /\ client.error = SendError
    /\ Len(client.messages) = 4
    /\ client.messages[3].role = "assistant"
    /\ client.sessionId = sentChats[1].sessionId

=============================================================================
